---- MODULE Spec2Model ----
(***************************************************************************)
(* A model of generate_maps.py: the EXIF reader (get_exif_data), the GPS   *)
(* coordinate resolver (get_gps_coordinates, convert_dms_to_decimal), the  *)
(* page builder (generate_maps_html) and the script's main block.          *)
(*                                                                         *)
(* Python floats are modelled as exact rationals <<p, q>> in lowest terms  *)
(* with q > 0; None is the empty tuple.                                    *)
(***************************************************************************)
EXTENDS Integers, Sequences, FiniteSets, TLC

\* ------------------------------------------------------------------ bounds
MaxNum == 2
MaxDen == 2
MaxFiles == 3
MaxRuns == 2

VARIABLES
    exif_arg,      \* resolver run: the metadata mapping passed to get_gps_coordinates
    rpc,           \* resolver run: "call" before the call, then "returned" or "raised"
    ret,           \* resolver run: the call's outcome
    directory,     \* os.listdir(cwd): the directory entries, each with the file's content
    disk,          \* maps.html on disk: <<>> when it does not exist, else <<document>>
    run,           \* which run of the script this is
    pc,            \* position of the script
    jpg_files,     \* main: the candidate paths
    i,             \* generate_maps_html: index of the next file of the loop
    places_data,   \* generate_maps_html: the accumulated records
    exif,          \* the mapping the last get_exif_data call returned
    read_error,    \* whether the last get_exif_data call caught an exception
    log,           \* what was printed, in order
    html,          \* the document generate_maps_html returned (<<>> before that)
    writes,        \* how many times this run wrote maps.html
    prev           \* the previous run's outcome (<<>> in the first run)

vars == <<exif_arg, rpc, ret, directory, disk, run, pc, jpg_files, i, places_data,
          exif, read_error, log, html, writes, prev>>

resolverVars == <<exif_arg, rpc, ret>>
scriptVars == <<directory, disk, run, pc, jpg_files, i, places_data,
                exif, read_error, log, html, writes, prev>>

\* ------------------------------------------------------- exact arithmetic
None == <<>>

Abs(x) == IF x < 0 THEN -x ELSE x

RECURSIVE GCD(_, _)
GCD(a, b) == IF b = 0 THEN a ELSE GCD(b, a % b)

\* the rational p/q (q > 0) in lowest terms
Norm(p, q) == LET g == GCD(Abs(p), q) IN <<p \div g, q \div g>>

RatAdd(a, b) == Norm(a[1] * b[2] + b[1] * a[2], a[2] * b[2])

RatDivInt(a, n) == Norm(a[1], a[2] * n)

RatNeg(a) == <<0 - a[1], a[2]>>

\* ------------------------------------------------------ metadata values
\* a value looked up in a dict: present (with its value) or not (.get gives None)
Missing == [present |-> FALSE, val |-> <<>>]
Present(v) == [present |-> TRUE, val |-> v]
MissingRef == [present |-> FALSE, val |-> ""]

\* a DMS component: an IFDRational, or something without numerator/denominator
Rational(n, d) == [rat |-> TRUE, num |-> n, den |-> d]
NotRational == [rat |-> FALSE, num |-> 0, den |-> 0]

\* the GPSInfo entry of a metadata mapping; has = the key exists; other = the
\* nested mapping holds sub-fields besides the four the resolver reads
NoGpsInfo ==
    [has |-> FALSE, other |-> FALSE, GPSLatitude |-> Missing, GPSLatitudeRef |-> MissingRef,
     GPSLongitude |-> Missing, GPSLongitudeRef |-> MissingRef]

GpsInfo(other, lat, latRef, lon, lonRef) ==
    [has |-> TRUE, other |-> other, GPSLatitude |-> lat, GPSLatitudeRef |-> latRef,
     GPSLongitude |-> lon, GPSLongitudeRef |-> lonRef]

\* a metadata mapping: the names of its other entries, and its GPSInfo entry
EmptyExif == [other |-> {}, GPSInfo |-> NoGpsInfo]

\* Python truthiness of a looked-up tuple / string / nested mapping
TruthyTuple(f) == f.present /\ f.val # <<>>
TruthyStr(f) == f.present /\ f.val # ""
TruthyGps(g) ==
    g.has /\ (g.other \/ g.GPSLatitude.present \/ g.GPSLatitudeRef.present
                      \/ g.GPSLongitude.present \/ g.GPSLongitudeRef.present)

\* ------------------------------------------------- convert_dms_to_decimal
convert_dms_to_decimal_swapped(dms_coords) ==
    RatAdd(dms_coords[1], RatAdd(RatDivInt(dms_coords[2], 3600), RatDivInt(dms_coords[3], 60)))

convert_dms_to_decimal(dms_coords) ==
    RatAdd(dms_coords[1], RatAdd(RatDivInt(dms_coords[2], 60), RatDivInt(dms_coords[3], 3600)))

\* ---------------------------------------------------- get_gps_coordinates
\* x.numerator / x.denominator for the k-th component of a looked-up tuple:
\* the exception it raises, or "" when it evaluates
ComponentError(t, k) ==
    IF Len(t) < k THEN "IndexError"
    ELSE IF ~t[k].rat THEN "AttributeError"
    ELSE IF t[k].den = 0 THEN "ZeroDivisionError"
    ELSE ""

\* the first exception raised while the three components are evaluated in order
TripleError(t) ==
    IF ComponentError(t, 1) # "" THEN ComponentError(t, 1)
    ELSE IF ComponentError(t, 2) # "" THEN ComponentError(t, 2)
    ELSE ComponentError(t, 3)

Quotient(c) == Norm(c.num, c.den)

TripleValue(t) == convert_dms_to_decimal(<<Quotient(t[1]), Quotient(t[2]), Quotient(t[3])>>)

AllFieldsWithoutLonRef(g) ==
    TruthyTuple(g.GPSLatitude) /\ TruthyStr(g.GPSLatitudeRef) /\ TruthyTuple(g.GPSLongitude)

AllFields(g) ==
    /\ TruthyTuple(g.GPSLatitude)
    /\ TruthyStr(g.GPSLatitudeRef)
    /\ TruthyTuple(g.GPSLongitude)
    /\ TruthyStr(g.GPSLongitudeRef)

SouthOnly(ref) == ref = "S"

NegateLat(ref) == ref # "N"

NegateLon(ref) == ref # "E"

Returned(lat, lon) == [kind |-> "return", exc |-> "", lat |-> lat, lon |-> lon]
Raised(e) == [kind |-> "raise", exc |-> e, lat |-> None, lon |-> None]

get_gps_coordinates(exif_data) ==
    LET gps_info == exif_data.GPSInfo IN
    IF ~TruthyGps(gps_info) THEN Returned(None, None)
    ELSE IF ~AllFields(gps_info) THEN Returned(None, None)
    ELSE IF TripleError(gps_info.GPSLatitude.val) # ""
         THEN Raised(TripleError(gps_info.GPSLatitude.val))
    ELSE IF TripleError(gps_info.GPSLongitude.val) # ""
         THEN Raised(TripleError(gps_info.GPSLongitude.val))
    ELSE LET lat0 == TripleValue(gps_info.GPSLatitude.val)
             lon0 == TripleValue(gps_info.GPSLongitude.val)
             lat == IF NegateLat(gps_info.GPSLatitudeRef.val) THEN RatNeg(lat0) ELSE lat0
             lon == IF NegateLon(gps_info.GPSLongitudeRef.val) THEN RatNeg(lon0) ELSE lon0
         IN Returned(lat, lon)

\* ------------------------------------------- the resolver on bounded inputs
Rationals == {Rational(n, d) : n \in 0..MaxNum, d \in 1..MaxDen}

DMS == {<<a, b, c>> : a \in Rationals, b \in Rationals, c \in Rationals}

\* triples the other coordinate takes while one coordinate ranges over DMS
SomeDMS ==
    { <<Rational(0, 1), Rational(0, 1), Rational(0, 1)>>,
      <<Rational(1, 1), Rational(1, 2), Rational(2, 1)>>,
      <<Rational(2, 1), Rational(0, 1), Rational(1, 1)>> }

\* non-empty tuples that are no triple of rationals
MalformedDMS ==
    { <<Rational(1, 1)>>,
      <<Rational(1, 1), Rational(1, 1)>>,
      <<Rational(1, 1), Rational(1, 0), Rational(1, 1)>>,
      <<Rational(1, 1), Rational(1, 1), NotRational>>,
      <<NotRational, Rational(1, 0)>> }

LatRefs == {"N", "S", "n"}
LonRefs == {"E", "W", "X"}

\* each of the four sub-fields missing, empty or present; the nested mapping
\* with or without other sub-fields (without any sub-field it is the empty dict)
PresenceInputs ==
    { [other |-> {}, GPSInfo |-> GpsInfo(o, lat, latRef, lon, lonRef)] :
        o \in BOOLEAN,
        lat \in {Missing, Present(<<>>)} \cup {Present(t) : t \in SomeDMS},
        latRef \in {MissingRef, Present(""), Present("N"), Present("S")},
        lon \in {Missing, Present(<<>>)} \cup {Present(t) : t \in SomeDMS},
        lonRef \in {MissingRef, Present(""), Present("E"), Present("W")} }

\* all four sub-fields present
ValueInput(lat, latRef, lon, lonRef) ==
    [other |-> {}, GPSInfo |-> GpsInfo(FALSE, Present(lat), Present(latRef),
                                        Present(lon), Present(lonRef))]

NoCall == [kind |-> "none", exc |-> "", lat |-> None, lon |-> None]

\* the script's variables, at rest while the resolver alone is exercised
ScriptIdle ==
    /\ directory = <<>>
    /\ disk = <<>>
    /\ run = 1
    /\ pc = "idle"
    /\ jpg_files = <<>>
    /\ i = 1
    /\ places_data = <<>>
    /\ exif = EmptyExif
    /\ read_error = FALSE
    /\ log = <<>>
    /\ html = <<>>
    /\ writes = 0
    /\ prev = <<>>

\* the inputs: no GPSInfo at all; every presence combination of the four
\* sub-fields; and, all four present, one coordinate over every bounded tuple
\* while the other takes the tuples of SomeDMS
InitResolver ==
    /\ \/ exif_arg \in {EmptyExif, [other |-> {"Make"}, GPSInfo |-> NoGpsInfo]}
       \/ exif_arg \in PresenceInputs
       \/ \E lat \in DMS \cup MalformedDMS, latRef \in LatRefs,
             lon \in SomeDMS, lonRef \in LonRefs :
               exif_arg = ValueInput(lat, latRef, lon, lonRef)
       \/ \E lat \in SomeDMS, latRef \in LatRefs,
             lon \in DMS \cup MalformedDMS, lonRef \in LonRefs :
               exif_arg = ValueInput(lat, latRef, lon, lonRef)
    /\ rpc = "call"
    /\ ret = NoCall
    /\ ScriptIdle

\* one call get_gps_coordinates(exif_arg)
Resolve ==
    /\ rpc = "call"
    /\ ret' = get_gps_coordinates(exif_arg)
    /\ rpc' = IF ret'.kind = "raise" THEN "raised" ELSE "returned"
    /\ UNCHANGED <<exif_arg, scriptVars>>

NextResolver == Resolve

SpecResolver == InitResolver /\ [][NextResolver]_vars

\* ----------------------------------------------------------- get_exif_data
\* PIL.ExifTags.TAGS, on the tag ids used here
TAGS == (271 :> "Make" @@ 272 :> "Model" @@ 34853 :> "GPSInfo")

\* an entry of the dict img._getexif() returns: a tag id and its value; the
\* value of the GPS tag is a nested dict (iterable, indexable by its keys) or,
\* in a damaged file, something that cannot be iterated
TagEntry(id) == [tag |-> id, iterable |-> FALSE, value |-> NoGpsInfo]
GpsEntry(g) == [tag |-> 34853, iterable |-> TRUE, value |-> g]
DamagedGpsEntry == [tag |-> 34853, iterable |-> FALSE, value |-> NoGpsInfo]

\* a file: whether Image.open succeeds, whether _getexif returns or raises,
\* and the entries of the dict it returns (none: None or an empty dict)
File(open, getexif, info) == [open |-> open, getexif |-> getexif, info |-> info]

\* gps_data, built from the nested dict's items under their GPSTAGS names
DecodeGps(value) == [value EXCEPT !.has = TRUE]

\* the loop over info.items() from its k-th entry, exif_data being acc so far
RECURSIVE DecodeTags(_, _, _)
DecodeTags(info, k, acc) ==
    IF k > Len(info) THEN [exif_data |-> acc, error |-> FALSE]
    ELSE LET decoded == TAGS[info[k].tag] IN
         IF decoded = "GPSInfo"
         THEN IF ~info[k].iterable
              THEN [exif_data |-> acc, error |-> TRUE]
              ELSE DecodeTags(info, k + 1, [acc EXCEPT !.GPSInfo = DecodeGps(info[k].value)])
         ELSE DecodeTags(info, k + 1, [acc EXCEPT !.other = @ \cup {decoded}])

\* what get_exif_data returns, and whether its except clause ran
get_exif_data(file) ==
    IF ~file.open THEN [exif_data |-> EmptyExif, error |-> TRUE]
    ELSE IF file.getexif = "raise" THEN [exif_data |-> EmptyExif, error |-> TRUE]
    ELSE DecodeTags(file.info, 1, EmptyExif)

\* ------------------------------------------------------ generate_maps_html
basename(path) == path.name

\* line 85: both coordinates are not None
KeepIfTruthy(latitude, longitude) ==
    /\ latitude # None /\ latitude[1] # 0
    /\ longitude # None /\ longitude[1] # 0

Keep(latitude, longitude) == latitude # None /\ longitude # None

Place(img_file, latitude, longitude) ==
    [name |-> basename(img_file), lat |-> latitude, lon |-> longitude,
     image |-> basename(img_file)]

RECURSIVE SumLat(_)
SumLat(places) ==
    IF places = <<>> THEN <<0, 1>> ELSE RatAdd(places[1].lat, SumLat(Tail(places)))

RECURSIVE SumLon(_)
SumLon(places) ==
    IF places = <<>> THEN <<0, 1>> ELSE RatAdd(places[1].lon, SumLon(Tail(places)))

\* 60.6 and 15.5
DefaultCenter == << <<303, 5>>, <<31, 2>> >>

CenterLonFromLat(places) ==
    IF places # <<>>
    THEN <<RatDivInt(SumLat(places), Len(places)), RatDivInt(SumLat(places), Len(places))>>
    ELSE DefaultCenter

\* lines 96-103: <<center_lat, center_lon>>
Center(places) ==
    IF places # <<>>
    THEN <<RatDivInt(SumLat(places), Len(places)), RatDivInt(SumLon(places), Len(places))>>
    ELSE DefaultCenter

\* the document: the static template with the center and the records embedded
Document(places) ==
    [center_lat |-> Center(places)[1], center_lon |-> Center(places)[2], places |-> places]

\* --------------------------------------------------------------- the script
\* f.lower() of a file name's extension
Lower(ext) == IF ext = "JPG" THEN "jpg" ELSE ext

Name(stem, ext) == [stem |-> stem, ext |-> ext]

\* os.path.join(current_directory, f)
Path(f) == [dir |-> "cwd", name |-> f]

\* the content of the file a path names
FileAt(path) == (CHOOSE e \in {directory[k] : k \in DOMAIN directory} : e.name = path.name).content

\* line 158: the paths of the entries whose lower-cased name ends in .jpg, in listing order
RECURSIVE Candidates(_)
Candidates(listing) ==
    IF listing = <<>> THEN <<>>
    ELSE (IF Lower(listing[1].name.ext) = "jpg" THEN <<Path(listing[1].name)>> ELSE <<>>)
             \o Candidates(Tail(listing))

Printed(kind, file) == [kind |-> kind, file |-> file]

\* ------------------------------------------------- the files of a directory
Whole(d, m, s) == <<Rational(d, 1), Rational(m, 1), Rational(s, 1)>>

Photo(lat, latRef, lon, lonRef) ==
    File(TRUE, "ok",
         <<TagEntry(271),
           GpsEntry(GpsInfo(TRUE, Present(lat), Present(latRef), Present(lon), Present(lonRef))),
           TagEntry(272)>>)

\* 1.5 N, 2 E
PhotoA == Photo(<<Rational(3, 2), Rational(0, 1), Rational(0, 1)>>, "N", Whole(2, 0, 0), "E")
\* 30" S, 1 W
PhotoB == Photo(Whole(0, 0, 30), "S", Whole(1, 0, 0), "W")
\* on the equator: latitude exactly 0
PhotoZero == Photo(Whole(0, 0, 0), "N", Whole(0, 1, 0), "E")
\* EXIF without a GPS block, and no EXIF at all
NoGps == File(TRUE, "ok", <<TagEntry(271)>>)
NoExif == File(TRUE, "ok", <<>>)
\* Image.open raises; _getexif raises
Unreadable == File(FALSE, "ok", <<>>)
NotJpeg == File(TRUE, "raise", <<>>)
\* the GPS tag's value cannot be iterated, after another tag was decoded
Damaged == File(TRUE, "ok", <<TagEntry(271), DamagedGpsEntry>>)
\* a GPS block without GPSLongitudeRef
NoLonRef ==
    File(TRUE, "ok",
         <<GpsEntry(GpsInfo(TRUE, Present(Whole(1, 0, 0)), Present("N"),
                            Present(Whole(1, 0, 0)), MissingRef))>>)
\* a latitude of two components; a longitude component with denominator 0
ShortTriple ==
    File(TRUE, "ok",
         <<GpsEntry(GpsInfo(FALSE, Present(<<Rational(1, 1), Rational(2, 1)>>), Present("N"),
                            Present(Whole(1, 0, 0)), Present("E")))>>)
ZeroDenominator ==
    File(TRUE, "ok",
         <<GpsEntry(GpsInfo(FALSE, Present(Whole(1, 0, 0)), Present("N"),
                            Present(<<Rational(1, 1), Rational(1, 0), Rational(1, 1)>>),
                            Present("E")))>>)

Contents ==
    {PhotoA, PhotoB, PhotoZero, NoGps, NoExif, Unreadable, NotJpeg, Damaged, NoLonRef,
     ShortTriple, ZeroDenominator}

Names == {Name("a", "jpg"), Name("b", "JPG"), Name("c", "jpg"), Name("notes", "txt")}

NoDocument == <<>>

\* the resolver's variables, at rest while the script runs
ResolverIdle ==
    /\ exif_arg = EmptyExif
    /\ rpc = "idle"
    /\ ret = NoCall

\* a directory of at most MaxFiles entries with distinct names, in the order
\* os.listdir gives them; what is not a .jpg is never opened
Init ==
    /\ ResolverIdle
    /\ \E n \in 0..MaxFiles :
         \E names \in [1..n -> Names], contents \in [1..n -> Contents] :
            /\ \A j, k \in 1..n : names[j] = names[k] => j = k
            /\ \A k \in 1..n : names[k].ext = "txt" => contents[k] = NoExif
            /\ directory = [k \in 1..n |-> [name |-> names[k], content |-> contents[k]]]
    /\ disk = NoDocument
    /\ run = 1
    /\ pc = "main"
    /\ jpg_files = <<>>
    /\ i = 1
    /\ places_data = <<>>
    /\ exif = EmptyExif
    /\ read_error = FALSE
    /\ log = <<>>
    /\ html = NoDocument
    /\ writes = 0
    /\ prev = <<>>

\* lines 157-161: no candidate file
MainNoFiles ==
    /\ pc = "main"
    /\ Candidates(directory) = <<>>
    /\ jpg_files' = Candidates(directory)
    /\ log' = Append(log, Printed("nofiles", Path(Name("", ""))))
    /\ pc' = "done"
    /\ UNCHANGED resolverVars
    /\ UNCHANGED <<directory, disk, run, i, places_data, exif, read_error, html, writes, prev>>

EnterGenerateKeepingPlaces == places_data' = places_data /\ i' = 1

\* line 80 and the start of the loop
EnterGenerate == places_data' = <<>> /\ i' = 1

\* lines 157-163: candidates found, generate_maps_html(jpg_files) is called
MainGenerate ==
    /\ pc = "main"
    /\ Candidates(directory) # <<>>
    /\ jpg_files' = Candidates(directory)
    /\ EnterGenerate
    /\ pc' = "loop"
    /\ UNCHANGED resolverVars
    /\ UNCHANGED <<directory, disk, run, exif, read_error, log, html, writes, prev>>

\* lines 81-93: one iteration of the loop; an exception get_gps_coordinates
\* raises is caught nowhere and ends the script
ProcessFile ==
    /\ pc = "loop"
    /\ i <= Len(jpg_files)
    /\ LET img_file == jpg_files[i]
           r == get_exif_data(FileAt(img_file))
           g == get_gps_coordinates(r.exif_data)
           errlog == IF r.error THEN Append(log, Printed("error", img_file)) ELSE log
       IN /\ exif' = r.exif_data
          /\ read_error' = r.error
          /\ IF g.kind = "raise"
             THEN /\ pc' = "crashed"
                  /\ log' = errlog
                  /\ UNCHANGED <<places_data, i>>
             ELSE /\ pc' = "loop"
                  /\ i' = i + 1
                  /\ IF Keep(g.lat, g.lon)
                     THEN /\ places_data' = Append(places_data, Place(img_file, g.lat, g.lon))
                          /\ log' = errlog
                     ELSE /\ places_data' = places_data
                          /\ log' = Append(errlog, Printed("warning", img_file))
    /\ UNCHANGED resolverVars
    /\ UNCHANGED <<directory, disk, run, jpg_files, html, writes, prev>>

\* lines 95-154: after the loop, the center and the document
BuildPage ==
    /\ pc = "loop"
    /\ i > Len(jpg_files)
    /\ html' = <<Document(places_data)>>
    /\ pc' = "write"
    /\ UNCHANGED resolverVars
    /\ UNCHANGED <<directory, disk, run, jpg_files, i, places_data, exif, read_error, log,
                   writes, prev>>

\* lines 164-167: maps.html is opened for writing and the document written
WriteFile ==
    /\ pc = "write"
    /\ disk' = html
    /\ writes' = writes + 1
    /\ log' = Append(log, Printed("success", Path(Name("maps", "html"))))
    /\ pc' = "done"
    /\ UNCHANGED resolverVars
    /\ UNCHANGED <<directory, run, jpg_files, i, places_data, exif, read_error, html, prev>>

\* the script is run again in the same directory; maps.html, if written, is
\* still there. What the ended run printed, returned and wrote is remembered
\* in prev and the record of this run starts empty; the code's own variables
\* are left as they are, for the code to assign
Rerun ==
    /\ pc \in {"done", "crashed"}
    /\ run < MaxRuns
    /\ run' = run + 1
    /\ prev' = <<[pc |-> pc, html |-> html, writes |-> writes, log |-> log]>>
    /\ pc' = "main"
    /\ writes' = 0
    /\ log' = <<>>
    /\ html' = NoDocument
    /\ exif' = EmptyExif
    /\ read_error' = FALSE
    /\ UNCHANGED resolverVars
    /\ UNCHANGED <<directory, disk, jpg_files, i, places_data>>

Next ==
    \/ MainNoFiles
    \/ MainGenerate
    \/ ProcessFile
    \/ BuildPage
    \/ WriteFile
    \/ Rerun

Spec == Init /\ [][Next]_vars

\* ------------------------------------------------ claims on the resolver
\* a looked-up value that is missing, or present but empty
AbsentTuple(f) == ~f.present \/ f.val = <<>>
AbsentStr(f) == ~f.present \/ f.val = ""

\* a tuple of exactly three rationals with non-zero denominators
WellFormedTriple(t) ==
    Len(t) = 3 /\ \A k \in 1..3 : t[k].rat /\ t[k].den # 0

\* 3600 * d1 * d2 * d3, and the triple's value in that many-th parts of an arc-second
TripleDen(t) == 3600 * t[1].den * t[2].den * t[3].den
TripleNum(t) ==
    3600 * t[1].num * t[2].den * t[3].den
        + 60 * t[2].num * t[1].den * t[3].den
        + t[3].num * t[1].den * t[2].den

\* the rational v = <<p, q>> in lowest terms equals n / d
RatEquals(v, n, d) == d % v[2] = 0 /\ v[1] * (d \div v[2]) = n

\* C1: when GPSInfo is missing or empty, or at least one of GPSLatitude,
\* GPSLatitudeRef, GPSLongitude, GPSLongitudeRef is missing or empty, the call
\* returns (None, None); and no returned pair has exactly one None.
C1_AbsentWhenAnyFieldMissing ==
    rpc # "call" =>
        LET g == exif_arg.GPSInfo IN
        /\ ( \/ ~g.has
             \/ AbsentTuple(g.GPSLatitude) \/ AbsentStr(g.GPSLatitudeRef)
             \/ AbsentTuple(g.GPSLongitude) \/ AbsentStr(g.GPSLongitudeRef) )
           => (rpc = "returned" /\ ret.lat = None /\ ret.lon = None)
        /\ rpc = "returned" => ((ret.lat = None) <=> (ret.lon = None))

\* C1's case: only GPSLongitudeRef is absent (missing or empty), and the call returned absent
C1_Witness ==
    LET g == exif_arg.GPSInfo IN
    /\ rpc = "returned"
    /\ g.has
    /\ ~AbsentTuple(g.GPSLatitude) /\ ~AbsentStr(g.GPSLatitudeRef)
    /\ ~AbsentTuple(g.GPSLongitude) /\ AbsentStr(g.GPSLongitudeRef)
    /\ ret.lat = None /\ ret.lon = None

\* C2 (the claim as stated): no call of get_gps_coordinates ends in an exception,
\* whatever the GPS sub-structure holds.
C2_NoExceptionPropagates == rpc # "raised"

\* C3: with the positive marker ("N" for latitude, "E" for longitude) the
\* resolved value of a triple (d, m, s) is d + m/60 + s/3600, for latitude and
\* for longitude independently.
C3_PositiveMarkerValue ==
    LET g == exif_arg.GPSInfo IN
    (/\ rpc # "call"
     /\ g.has
     /\ ~AbsentTuple(g.GPSLatitude) /\ ~AbsentStr(g.GPSLatitudeRef)
     /\ ~AbsentTuple(g.GPSLongitude) /\ ~AbsentStr(g.GPSLongitudeRef)
     /\ WellFormedTriple(g.GPSLatitude.val) /\ WellFormedTriple(g.GPSLongitude.val))
    =>
    /\ rpc = "returned"
    /\ g.GPSLatitudeRef.val = "N" =>
          /\ ret.lat # None
          /\ RatEquals(ret.lat, TripleNum(g.GPSLatitude.val), TripleDen(g.GPSLatitude.val))
    /\ g.GPSLongitudeRef.val = "E" =>
          /\ ret.lon # None
          /\ RatEquals(ret.lon, TripleNum(g.GPSLongitude.val), TripleDen(g.GPSLongitude.val))

\* C3's case: (1, 1/2, 2) N resolved to 1 + 1/120 + 2/3600 = 227/225, beside (2, 0, 1) E
C3_Witness ==
    LET g == exif_arg.GPSInfo IN
    /\ rpc = "returned"
    /\ g.GPSLatitudeRef.val = "N" /\ g.GPSLongitudeRef.val = "E"
    /\ g.GPSLatitude.val = <<Rational(1, 1), Rational(1, 2), Rational(2, 1)>>
    /\ g.GPSLongitude.val = <<Rational(2, 1), Rational(0, 1), Rational(1, 1)>>
    /\ ret.lat = <<227, 225>>
    /\ ret.lon = <<7201, 3600>>

\* the same mapping with both references set to the positive markers
WithPositiveMarkers(e) ==
    [e EXCEPT !.GPSInfo.GPSLatitudeRef = Present("N"),
              !.GPSInfo.GPSLongitudeRef = Present("E")]

\* C4: for well-formed triples and non-empty references, the call returns a
\* pair; latitude is the exact negation of the positive-marker value iff its
\* reference is not "N" and longitude iff its reference is not "E", each
\* independently of the other; a malformed reference is neither an error nor absent.
C4_NegatedUnlessPositiveMarker ==
    LET g == exif_arg.GPSInfo
        pos == get_gps_coordinates(WithPositiveMarkers(exif_arg))
    IN
    (/\ rpc # "call"
     /\ g.has
     /\ ~AbsentTuple(g.GPSLatitude) /\ ~AbsentStr(g.GPSLatitudeRef)
     /\ ~AbsentTuple(g.GPSLongitude) /\ ~AbsentStr(g.GPSLongitudeRef)
     /\ WellFormedTriple(g.GPSLatitude.val) /\ WellFormedTriple(g.GPSLongitude.val))
    =>
    /\ rpc = "returned" /\ ret.lat # None /\ ret.lon # None
    /\ pos.kind = "return" /\ pos.lat # None /\ pos.lon # None
    /\ pos.lat[1] >= 0 /\ pos.lon[1] >= 0
    /\ ret.lat = IF g.GPSLatitudeRef.val = "N" THEN pos.lat
                 ELSE <<0 - pos.lat[1], pos.lat[2]>>
    /\ ret.lon = IF g.GPSLongitudeRef.val = "E" THEN pos.lon
                 ELSE <<0 - pos.lon[1], pos.lon[2]>>

\* C4's case: a malformed latitude reference negates the latitude while the
\* longitude, with "E", stays positive
C4_Witness ==
    LET g == exif_arg.GPSInfo IN
    /\ rpc = "returned"
    /\ g.GPSLatitudeRef.val = "n" /\ g.GPSLongitudeRef.val = "E"
    /\ ret.lat # None /\ ret.lon # None
    /\ ret.lat[1] < 0 /\ ret.lon[1] > 0

\* -------------------------------------------------- claims on the script
\* a coordinate that is a whole number of 3600/q-th parts, in arc-seconds
ArcSeconds(v) == v[1] * (3600 \div v[2])

RECURSIVE ArcSecondsLat(_)
ArcSecondsLat(places) ==
    IF places = <<>> THEN 0 ELSE ArcSeconds(places[1].lat) + ArcSecondsLat(Tail(places))

RECURSIVE ArcSecondsLon(_)
ArcSecondsLon(places) ==
    IF places = <<>> THEN 0 ELSE ArcSeconds(places[1].lon) + ArcSecondsLon(Tail(places))

\* C5: the center of the generated document is (mean latitude, mean longitude)
\* of the accumulated records when there is at least one, and (60.6, 15.5) when
\* there is none; with records whose mean is not the fallback, the center is
\* not the fallback.
C5_CenterIsMeanOrFallback ==
    html # NoDocument =>
        LET doc == html[1]
            n == Len(places_data)
        IN IF n = 0
           THEN doc.center_lat = <<303, 5>> /\ doc.center_lon = <<31, 2>>
           ELSE /\ RatEquals(doc.center_lat, ArcSecondsLat(places_data), 3600 * n)
                /\ RatEquals(doc.center_lon, ArcSecondsLon(places_data), 3600 * n)
                /\ ArcSecondsLat(places_data) * 5 # 303 * 3600 * n => doc.center_lat # <<303, 5>>
                /\ ArcSecondsLon(places_data) * 2 # 31 * 3600 * n => doc.center_lon # <<31, 2>>

\* C5's case: records at (1.5, 2) and (-30", -1): the center is (2685", 1800")
C5_Witness ==
    /\ html # NoDocument
    /\ Len(places_data) = 2
    /\ places_data[1].lat = <<3, 2>> /\ places_data[2].lat = <<-1, 120>>
    /\ html[1].center_lat = <<179, 240>>
    /\ html[1].center_lon = <<1, 2>>

\* the call chain on one file returned a pair with both coordinates present
Resolved(path) ==
    LET g == get_gps_coordinates(get_exif_data(FileAt(path)).exif_data)
    IN g.kind = "return" /\ g.lat # None /\ g.lon # None

RECURSIVE ExpectedRecords(_)
ExpectedRecords(files) ==
    IF files = <<>> THEN <<>>
    ELSE LET g == get_gps_coordinates(get_exif_data(FileAt(files[1])).exif_data)
         IN (IF Resolved(files[1])
             THEN <<[name |-> files[1].name, lat |-> g.lat, lon |-> g.lon,
                     image |-> files[1].name]>>
             ELSE <<>>) \o ExpectedRecords(Tail(files))

RECURSIVE Unresolved(_)
Unresolved(files) ==
    IF files = <<>> THEN <<>>
    ELSE (IF Resolved(files[1]) THEN <<>> ELSE <<files[1]>>) \o Unresolved(Tail(files))

RECURSIVE WarnedFiles(_)
WarnedFiles(printed) ==
    IF printed = <<>> THEN <<>>
    ELSE (IF printed[1].kind = "warning" THEN <<printed[1].file>> ELSE <<>>)
             \o WarnedFiles(Tail(printed))

C7_FailureIsolated ==
    (pc \in {"done", "crashed"} /\ jpg_files # <<>>) =>
        /\ pc = "done"
        /\ i = Len(jpg_files) + 1
        /\ html # NoDocument
        /\ html[1].places = ExpectedRecords(jpg_files)

\* C8 (the claim as stated): whenever get_exif_data caught a failure, the
\* mapping it returned is empty and the failure was printed.
C8_EmptyMappingOnFailure ==
    read_error =>
        /\ exif = EmptyExif
        /\ \E k \in DOMAIN log : log[k].kind = "error"

\* some directory entry is a candidate .jpg file
HasCandidate == \E k \in DOMAIN directory : directory[k].name.ext \in {"jpg", "JPG"}

\* C9 (the claim as stated): a run that ended wrote maps.html exactly once if
\* some candidate file was found, and not at all otherwise.
C9_WritesIffCandidates ==
    pc \in {"done", "crashed"} =>
        /\ HasCandidate => (writes = 1 /\ disk = html /\ html # NoDocument)
        /\ ~HasCandidate => (writes = 0 /\ html = NoDocument)

\* C10: a second run on the same directory ends as the first did, with the
\* same document (center and records), the same messages and the same file.
C10_SecondRunSameOutput ==
    (run > 1 /\ pc \in {"done", "crashed"}) =>
        /\ prev[1].pc = pc
        /\ prev[1].html = html
        /\ prev[1].log = log
        /\ prev[1].writes = writes
        /\ writes = 1 => disk = html

\* C10's case: a second run ended with a document that holds records
C10_Witness ==
    /\ run = 2
    /\ pc = "done"
    /\ html # NoDocument
    /\ Len(html[1].places) = 2
    /\ prev[1].html = html

====
